---- MODULE Spec2Model ----
(***************************************************************************)
(* HadithGPT retrieval pipeline.                                           *)
(*                                                                         *)
(* Spec      one POST /search request handled by search_hadiths            *)
(*           (src/api/main.py): classify -> enhance -> embed -> determine  *)
(*           collections -> search each collection -> sort/slice ->        *)
(*           cluster -> response.  Every remote call is one step whose     *)
(*           outcome (an answer, or an exception) is chosen by the         *)
(*           environment.                                                  *)
(* SpecFair  Spec with every step that can be taken eventually taken.      *)
(* SpecText  the query-text functions taken alone: enhance_query           *)
(*           (src/api/main.py) and understand_query (src/query_hadiths.py) *)
(*           applied to every bounded query and every completion outcome.  *)
(*                                                                         *)
(* Text is a sequence of one-character strings.  An Optional value is      *)
(* None (the empty tuple) or Some(v) (the one-element tuple).              *)
(***************************************************************************)
EXTENDS Integers, Sequences, FiniteSets, TLC

VARIABLES
    available_indexes,      \* global list of known collection names
    clients,                \* globals openai_client and pinecone_client
    request,                \* QueryRequest: query, top_k, collections
    pc,                     \* position of search_hadiths
    query_type,             \* local of search_hadiths
    message,                \* local of search_hadiths
    top_k,                  \* local of search_hadiths
    enhanced_query,         \* local of search_hadiths
    enhance_failed,         \* history: the enhancement call gave no usable answer
    query_vector,           \* local of search_hadiths
    collections_to_search,  \* local of search_hadiths
    all_results,            \* local of search_hadiths
    top_results,            \* local of search_hadiths
    cluster_data,           \* local of search_hadiths
    outcome,                \* what the caller gets: pending, response or error
    calls,                  \* history: the remote calls issued, in order
    returned,               \* history: what each collection query produced
    in_flight,              \* positions of the collection queries not yet returned
    cluster_reply,          \* history: the clustering completion received
    unit                    \* SpecText: the function under study and its progress

vars == <<available_indexes, clients, request, pc, query_type, message, top_k,
          enhanced_query, enhance_failed, query_vector, collections_to_search,
          all_results, top_results, cluster_data, outcome, calls, returned,
          in_flight, cluster_reply, unit>>

pipeline_vars == <<available_indexes, clients, request, pc, query_type, message,
                   top_k, enhanced_query, enhance_failed, query_vector,
                   collections_to_search, all_results, top_results,
                   cluster_data, outcome, calls, returned, in_flight,
                   cluster_reply>>

----------------------------------------------------------------------------
(* Bounds *)

MaxK == 2               \* largest requested top_k
MaxHits == 2            \* most hits one collection query returns
MaxQueryLen == 2        \* SpecText: longest query text, in characters
MaxAnswerLen == 2       \* SpecText: longest enhancement answer, in characters

----------------------------------------------------------------------------
(* Optional values and text *)

None == <<>>
Some(v) == <<v>>
Val(o) == o[1]

Min(a, b) == IF a <= b THEN a ELSE b

Chars == {"a", " "}

Texts(n) == UNION {[1..m -> Chars] : m \in 0..n}

\* QueryRequest.query: Field(..., min_length=1, max_length=500).  The pipeline
\* never looks into the query text: Spec runs it on one-character texts,
\* SpecText runs the text functions on the longer ones.
ShortTexts == {<<>>} \cup {<<c>> : c \in Chars}

Queries == {<<"a">>}

LongQueries == {q \in Texts(MaxQueryLen) : Len(q) >= 1}

RECURSIVE lstrip(_)
lstrip(s) == IF s # <<>> /\ Head(s) = " " THEN lstrip(Tail(s)) ELSE s

RECURSIVE rstrip(_)
rstrip(s) ==
    IF s # <<>> /\ s[Len(s)] = " " THEN rstrip(SubSeq(s, 1, Len(s) - 1)) ELSE s

\* str.strip()
strip(s) == rstrip(lstrip(s))

startswith(s, prefix) ==
    /\ Len(prefix) <= Len(s)
    /\ SubSeq(s, 1, Len(prefix)) = prefix

----------------------------------------------------------------------------
(* Outcomes of openai_client.chat.completions.create: the call raises, or  *)
(* it returns a message whose content is None or a value.                  *)

ChatOutcomes(contents) ==
    {[raised |-> TRUE, content |-> None]}
        \cup {[raised |-> FALSE, content |-> None]}
        \cup {[raised |-> FALSE, content |-> Some(c)] : c \in contents}

\* response.choices[0].message.content.strip() raises on a None content
ContentUsable(out) == ~out.raised /\ out.content # None

----------------------------------------------------------------------------
(* classify_query.  The classifier's answer is a sequence of words; a word *)
(* is one of the markers in some letter case, a marker inside a longer     *)
(* word ("Greeting!"), other text, or a blank.                             *)

MaxClassifyWords == 2   \* longest classification answer, in words

ClassifyWords == {"HADITH_QUERY", "hadith_query", "GREETING", "Greeting!",
                  "OFF_TOPIC", " "}

ClassifyAnswers == UNION {[1..m -> ClassifyWords] : m \in 0..MaxClassifyWords}

upper_word(w) ==
    CASE w = "hadith_query" -> "HADITH_QUERY"
      [] w = "Greeting!" -> "GREETING!"
      [] OTHER -> w

\* str.upper()
upper(s) == [i \in 1..Len(s) |-> upper_word(s[i])]

\* marker in word
word_contains(w, marker) ==
    \/ w = marker
    \/ (w = "GREETING!" /\ marker = "GREETING")

\* marker in classification
contains(s, marker) == \E i \in 1..Len(s) : word_contains(s[i], marker)

GREETING_MESSAGE == "Wa alaikum salaam! Welcome! I'm here to help you find Hadiths."
OFF_TOPIC_MESSAGE == "I specialize in finding Hadiths. Ask me about what the Prophet Muhammad said or did!"

\* a failed classification taken for an off-topic query
classify_query_fail_closed(out) ==
    IF ~ContentUsable(out)
    THEN [query_type |-> "OFF_TOPIC", message |-> OFF_TOPIC_MESSAGE]
    ELSE LET classification == upper(strip(Val(out.content)))
         IN  IF contains(classification, "HADITH_QUERY")
             THEN [query_type |-> "HADITH_QUERY", message |-> ""]
             ELSE IF contains(classification, "GREETING")
             THEN [query_type |-> "GREETING", message |-> GREETING_MESSAGE]
             ELSE [query_type |-> "OFF_TOPIC", message |-> OFF_TOPIC_MESSAGE]

classify_query(out) ==
    IF ~ContentUsable(out)
    THEN [query_type |-> "HADITH_QUERY", message |-> ""]
    ELSE LET classification == upper(strip(Val(out.content)))
         IN  IF contains(classification, "HADITH_QUERY")
             THEN [query_type |-> "HADITH_QUERY", message |-> ""]
             ELSE IF contains(classification, "GREETING")
             THEN [query_type |-> "GREETING", message |-> GREETING_MESSAGE]
             ELSE [query_type |-> "OFF_TOPIC", message |-> OFF_TOPIC_MESSAGE]

CLI_GREETING_MESSAGE == "Wa alaikum salaam! Welcome! I'm here to help you find Hadiths. What would you like to know about?"
CLI_OFF_TOPIC_MESSAGE == "I specialize in finding Hadiths from Islamic traditions."

\* the greeting marker tested before the hadith marker
is_hadith_query_greeting_first(out) ==
    IF ~ContentUsable(out)
    THEN [is_hadith |-> TRUE, message |-> ""]
    ELSE LET classification == upper(strip(Val(out.content)))
         IN  IF contains(classification, "GREETING")
             THEN [is_hadith |-> FALSE, message |-> CLI_GREETING_MESSAGE]
             ELSE IF contains(classification, "HADITH_QUERY")
             THEN [is_hadith |-> TRUE, message |-> ""]
             ELSE [is_hadith |-> FALSE, message |-> CLI_OFF_TOPIC_MESSAGE]

\* is_hadith_query of the command line: (is_hadith_request, response_message)
is_hadith_query(out) ==
    IF ~ContentUsable(out)
    THEN [is_hadith |-> TRUE, message |-> ""]
    ELSE LET classification == upper(strip(Val(out.content)))
         IN  IF contains(classification, "HADITH_QUERY")
             THEN [is_hadith |-> TRUE, message |-> ""]
             ELSE IF contains(classification, "GREETING")
             THEN [is_hadith |-> FALSE, message |-> CLI_GREETING_MESSAGE]
             ELSE [is_hadith |-> FALSE, message |-> CLI_OFF_TOPIC_MESSAGE]

----------------------------------------------------------------------------
(* enhance_query *)

EnhanceAnswers == ShortTexts

LongEnhanceAnswers == Texts(MaxAnswerLen)

\* the model's elaboration returned in place of the combined text
enhance_query_elaboration_only(query, out) ==
    IF ~ContentUsable(out) THEN query ELSE strip(Val(out.content))

\* a failed enhancement returns an empty text instead of the query
enhance_query_fail_blank(query, out) ==
    IF ~ContentUsable(out)
    THEN <<>>
    ELSE LET enhanced == strip(Val(out.content))
         IN  query \o <<" ">> \o enhanced

enhance_query(query, out) ==
    IF ~ContentUsable(out)
    THEN query
    ELSE LET enhanced == strip(Val(out.content))
         IN  query \o <<" ">> \o enhanced

----------------------------------------------------------------------------
(* create_embedding.  The vector is identified by the text it embeds.      *)

HTTPException(code, text) ==
    [kind |-> "error", status_code |-> code, detail |-> text]

\* the failure swallowed, as the other stages swallow theirs
create_embedding_fail_open(text, ok) ==
    [raised |-> FALSE, vector |-> IF ok THEN Some(text) ELSE None, error |-> None]

create_embedding(text, ok) ==
    IF ok
    THEN [raised |-> FALSE, vector |-> Some(text), error |-> None]
    ELSE [raised |-> TRUE, vector |-> None,
          error |-> Some(HTTPException(500, "Failed to create embedding"))]

----------------------------------------------------------------------------
(* search_collection.  A query of one index raises, or returns matches     *)
(* with a score and the metadata HadithResult requires; hadith_id numbers  *)
(* the matches in the order the store returned them.  Scores are two levels, the higher the better match.      *)

Scores == {1, 2}

MatchLists == UNION {[1..m -> Scores] : m \in 0..MaxHits}

SearchOutcomes ==
    {[raised |-> TRUE, scores |-> <<>>]}
        \cup {[raised |-> FALSE, scores |-> l] : l \in MatchLists}

\* every match labelled with one fixed name instead of the index queried
search_collection_fixed_label(index_name, out) ==
    IF out.raised
    THEN <<>>
    ELSE [i \in 1..Len(out.scores) |->
            [score |-> out.scores[i], collection |-> "colA", hadith_id |-> i]]

search_collection(index_name, out) ==
    IF out.raised
    THEN <<>>
    ELSE [i \in 1..Len(out.scores) |->
            [score |-> out.scores[i], collection |-> index_name, hadith_id |-> i]]

----------------------------------------------------------------------------
(* all_results.sort(key=score, reverse=True); all_results[:top_k]          *)

\* a hit placed before the hits of its score instead of after them
insert_before_equals(sorted, h) ==
    LET n == Cardinality({i \in 1..Len(sorted) : sorted[i].score > h.score})
    IN  SubSeq(sorted, 1, n) \o <<h>> \o SubSeq(sorted, n + 1, Len(sorted))

RECURSIVE insert_stable(_, _)
insert_stable(sorted, h) ==
    IF sorted = <<>>
    THEN <<h>>
    ELSE IF Head(sorted).score >= h.score
         THEN <<Head(sorted)>> \o insert_stable(Tail(sorted), h)
         ELSE <<h>> \o sorted

\* the sort left out
unsorted(s) == s

RECURSIVE sort_by_score_desc(_)
sort_by_score_desc(s) ==
    IF s = <<>>
    THEN <<>>
    ELSE insert_stable(sort_by_score_desc(SubSeq(s, 1, Len(s) - 1)), s[Len(s)])

slice(s, k) == SubSeq(s, 1, Min(k, Len(s)))

----------------------------------------------------------------------------
(* cluster_hadiths.  The content of the clustering completion is untrusted *)
(* text: it does not parse, parses to something that is no JSON object, or *)
(* parses to an object with or without a "clusters" member of any JSON     *)
(* type.  An element of a clusters list either has the fields and types    *)
(* HadithCluster requires (well_formed) or not.  Iterating a JSON string   *)
(* yields elements that are no mappings, so a string holds only            *)
(* ill-formed elements.                                                    *)

Indices == {0, 1, 2}

IndexLists == {<<>>} \cup {<<i>> : i \in Indices}

IllFormedEntry ==
    [well_formed |-> FALSE, primary_index |-> 0, hadith_indices |-> <<>>]

ClusterEntries ==
    {IllFormedEntry}
        \cup {[well_formed |-> TRUE, primary_index |-> p, hadith_indices |-> m] :
                p \in Indices, m \in IndexLists}

ClusterLists ==
    {<<>>} \cup {<<c>> : c \in ClusterEntries}
           \cup {<<c, d>> : c \in ClusterEntries, d \in ClusterEntries}

ClustersValues ==
    {[type |-> "null", items |-> <<>>], [type |-> "number", items |-> <<>>],
     [type |-> "string", items |-> <<>>],
     [type |-> "string", items |-> <<IllFormedEntry>>]}
        \cup {[type |-> "list", items |-> l] : l \in ClusterLists}

NoClustersValue == [type |-> "null", items |-> <<>>]

ClusterContents ==
    {[json |-> "invalid", has_clusters |-> FALSE, clusters |-> NoClustersValue],
     [json |-> "non_object", has_clusters |-> FALSE, clusters |-> NoClustersValue],
     [json |-> "object", has_clusters |-> FALSE, clusters |-> NoClustersValue]}
        \cup {[json |-> "object", has_clusters |-> TRUE, clusters |-> v] :
                v \in ClustersValues}

ClusterOutcomes == ChatOutcomes(ClusterContents)

\* a single hit is sent to clustering
AnyToCluster(hadiths) == Len(hadiths) >= 1

\* len(top_results) >= 2 in search_hadiths; cluster_hadiths repeats the test
\* as len(hadiths) < 2 before it issues the call
EnoughToCluster(hadiths) == Len(hadiths) >= 2

\* len(result["clusters"]) raises TypeError on null and on a number
HasLen(value) == value.type \in {"string", "list"}

\* the test for an empty clusters list left out
cluster_hadiths_keeps_empty(hadiths, out) ==
    IF ~EnoughToCluster(hadiths) \/ ~ContentUsable(out)
    THEN None
    ELSE LET result == Val(out.content)
         IN  IF result.json # "object" \/ ~result.has_clusters
                \/ ~HasLen(result.clusters)
             THEN None
             ELSE Some(result.clusters.items)

\* a failed or unusable answer gives an empty list in place of None
cluster_hadiths_empty_on_failure(hadiths, out) ==
    IF ~EnoughToCluster(hadiths)
    THEN None
    ELSE IF ~ContentUsable(out)
    THEN Some(<<>>)
    ELSE LET result == Val(out.content)
         IN  IF result.json # "object" \/ ~result.has_clusters
                \/ ~HasLen(result.clusters)
             THEN Some(<<>>)
             ELSE IF Len(result.clusters.items) = 0
             THEN None
             ELSE Some(result.clusters.items)

cluster_hadiths(hadiths, out) ==
    IF ~EnoughToCluster(hadiths)
    THEN None
    ELSE IF ~ContentUsable(out)
    THEN None
    ELSE LET result == Val(out.content)
         IN  IF result.json # "object"
             THEN None
             ELSE IF ~result.has_clusters
             THEN None
             ELSE IF ~HasLen(result.clusters)
             THEN None
             ELSE IF Len(result.clusters.items) = 0
             THEN None
             ELSE Some(result.clusters.items)

\* if cluster_data: (neither None nor empty)
Truthy(data) == data # None /\ Len(Val(data)) > 0

\* [HadithCluster(**c) for c in cluster_data]
HadithClusters(data) ==
    IF \E i \in 1..Len(data) : ~data[i].well_formed
    THEN [raised |-> TRUE, clusters |-> None]
    ELSE [raised |-> FALSE,
          clusters |-> Some([i \in 1..Len(data) |->
                              [primary_index |-> data[i].primary_index,
                               hadith_indices |-> data[i].hadith_indices]])]

----------------------------------------------------------------------------
(* search_hadiths: requests, responses *)

DefaultTopK == 10

CollectionNames == {"colA", "colB", "colX"}

KnownLists == {<<>>, <<"colA">>, <<"colA", "colB">>}

RequestedLists ==
    {<<>>} \cup {<<a>> : a \in CollectionNames}
           \cup {<<a, b>> : a \in CollectionNames, b \in CollectionNames}

\* QueryRequest
Requests ==
    [query : Queries,
     top_k : {None} \cup {Some(k) : k \in 1..MaxK},
     collections : {None} \cup {Some(l) : l \in RequestedLists}]

Pending == [kind |-> "pending"]

QueryResponse(q, eq, qt, msg, res, total, searched, cl) ==
    [kind |-> "response", query |-> q, enhanced_query |-> eq, query_type |-> qt,
     message |-> msg, results |-> res, total_results |-> total,
     searched_collections |-> searched, clusters |-> cl]

\* only a greeting returns early
IsEarlyExitGreetingOnly(qt) == qt = "GREETING"

\* if query_type != "HADITH_QUERY": return QueryResponse(...)
IsEarlyExit(qt) == qt # "HADITH_QUERY"

\* the early response built like the full one: message=None and the known
\* collections as searched_collections
EarlyExitResponseLikeFull(req, qt, msg) ==
    QueryResponse(req.query, req.query, qt, None, <<>>, 0, available_indexes, None)

EarlyExitResponse(req, qt, msg) ==
    QueryResponse(req.query, req.query, qt, Some(msg), <<>>, 0, <<>>, None)

\* top_k = request.top_k if request.top_k else 10
effective_top_k(req) == IF req.top_k # None THEN Val(req.top_k) ELSE DefaultTopK

\* invalid = [c for c in request.collections if c not in available_indexes]
InvalidCollections(requested, known) ==
    SelectSeq(requested, LAMBDA c : \A i \in 1..Len(known) : known[i] # c)

\* HTTPException(status_code=400, detail=f"Invalid collections:
\* {', '.join(invalid)}. Available: {', '.join(available_indexes)}"): the
\* detail with the two lists of names it prints
InvalidCollectionsError(invalid, known) ==
    [kind |-> "error", status_code |-> 400, detail |-> "Invalid collections",
     invalid |-> invalid, available |-> known]

\* every request searches all the known collections
ChosenAlwaysKnown(requested, known) == known

\* collections_to_search = request.collections if the request names any,
\* else available_indexes
ChosenCollections(requested, known) ==
    IF requested # <<>> THEN requested ELSE known

\* no request is refused for want of collections
NoCollectionsNever(chosen) == FALSE

\* if not collections_to_search
NoCollections(chosen) == chosen = <<>>

\* the HTTPException handled like any other exception
rewrapped(exc) == HTTPException(500, "Search failed")

\* except HTTPException: raise
reraise(exc) == exc

\* the loop waits for one more target after the last
LoopContinuesPastEnd(done, targets) == done <= Len(targets)

\* for collection in collections_to_search: a target is left to iterate
LoopContinues(done, targets) == done < Len(targets)

Call(kind, target) == [kind |-> kind, target |-> target]

IdleUnit ==
    [fn |-> "none", query |-> <<>>, tried |-> <<>>, replies |-> <<>>,
     reply |-> None, result |-> None, verdict |-> None]

----------------------------------------------------------------------------
(* Spec: one request through search_hadiths *)

\* lifespan: the clients and the list of the store's indexes
Init ==
    /\ available_indexes \in KnownLists
    /\ clients = [openai_client |-> "OpenAI", pinecone_client |-> "Pinecone"]
    /\ request \in Requests
    /\ pc = "classify"
    /\ query_type = ""
    /\ message = ""
    /\ top_k = 0
    /\ enhanced_query = <<>>
    /\ enhance_failed = FALSE
    /\ query_vector = None
    /\ collections_to_search = <<>>
    /\ all_results = <<>>
    /\ top_results = <<>>
    /\ cluster_data = None
    /\ outcome = Pending
    /\ calls = <<>>
    /\ returned = <<>>
    /\ in_flight = {}
    /\ cluster_reply = None
    /\ unit = IdleUnit

\* Step 1: query_type, message = classify_query(request.query), and the
\* early return of a greeting or an off-topic query
Classify ==
    /\ pc = "classify"
    /\ \E out \in ChatOutcomes(ClassifyAnswers) :
        LET c == classify_query(out)
        IN  /\ query_type' = c.query_type
            /\ message' = c.message
            /\ calls' = Append(calls, Call("classify", ""))
            /\ IF IsEarlyExit(c.query_type)
               THEN /\ outcome' = EarlyExitResponse(request, c.query_type, c.message)
                    /\ pc' = "done"
               ELSE /\ outcome' = outcome
                    /\ pc' = "enhance"
    /\ UNCHANGED <<available_indexes, clients, request, top_k, enhanced_query,
                   enhance_failed, query_vector, collections_to_search,
                   all_results, top_results, cluster_data, returned,
                   in_flight, cluster_reply, unit>>

\* Steps 2 and 3: top_k, enhanced_query = enhance_query(request.query)
Enhance ==
    /\ pc = "enhance"
    /\ top_k' = effective_top_k(request)
    /\ \E out \in ChatOutcomes(EnhanceAnswers) :
        /\ enhanced_query' = enhance_query(request.query, out)
        /\ enhance_failed' = ~ContentUsable(out)
        /\ calls' = Append(calls, Call("enhance", ""))
    /\ pc' = "embed"
    /\ UNCHANGED <<available_indexes, clients, request, query_type, message,
                   query_vector, collections_to_search, all_results,
                   top_results, cluster_data, outcome, returned, in_flight,
                   cluster_reply, unit>>

\* Step 4: query_vector = create_embedding(enhanced_query); its
\* HTTPException passes through "except HTTPException: raise"
Embed ==
    /\ pc = "embed"
    /\ \E ok \in BOOLEAN :
        LET e == create_embedding(enhanced_query, ok)
        IN  /\ calls' = Append(calls, Call("embed", ""))
            /\ query_vector' = e.vector
            /\ IF e.raised
               THEN /\ outcome' = reraise(Val(e.error))
                    /\ pc' = "done"
               ELSE /\ outcome' = outcome
                    /\ pc' = "collections"
    /\ UNCHANGED <<available_indexes, clients, request, query_type, message,
                   top_k, enhanced_query, enhance_failed,
                   collections_to_search, all_results, top_results,
                   cluster_data, returned, in_flight, cluster_reply, unit>>

\* Step 5, the locals: the 400 of an unknown requested name, the 404 of an
\* empty list of targets, or the targets of the search
DetermineCollectionsLocals ==
    /\ pc = "collections"
    /\ LET requested == IF request.collections # None
                        THEN Val(request.collections) ELSE <<>>
           invalid == InvalidCollections(requested, available_indexes)
           chosen == ChosenCollections(requested, available_indexes)
       IN  IF requested # <<>> /\ invalid # <<>>
           THEN /\ outcome' = reraise(InvalidCollectionsError(invalid,
                                                            available_indexes))
                /\ pc' = "done"
                /\ UNCHANGED collections_to_search
           ELSE IF NoCollections(chosen)
           THEN /\ outcome' = reraise(HTTPException(404,
                                          "No hadith collections found"))
                /\ pc' = "done"
                /\ collections_to_search' = chosen
           ELSE /\ collections_to_search' = chosen
                /\ pc' = IF chosen = <<>> THEN "aggregate" ELSE "search"
                /\ UNCHANGED outcome
    /\ UNCHANGED <<request, query_type, message, top_k, enhanced_query,
                   enhance_failed, query_vector, all_results, top_results,
                   cluster_data, calls, returned, in_flight, cluster_reply,
                   unit>>

\* the targets written through to the global list they may alias
DetermineCollectionsInPlace ==
    /\ DetermineCollectionsLocals
    /\ available_indexes' = collections_to_search'
    /\ UNCHANGED clients

\* Step 5: determine which collections to search; the globals are only read
DetermineCollections ==
    /\ DetermineCollectionsLocals
    /\ UNCHANGED <<available_indexes, clients>>

\* Step 6, one iteration of the loop enters
\* search_collection(collection, query_vector, top_k): the next target is
\* queried once the query before it is back
IssueSearch ==
    /\ pc = "search"
    /\ in_flight = {}
    /\ Len(returned) < Len(collections_to_search)
    /\ LET position == Len(returned) + 1
       IN  /\ in_flight' = {position}
           /\ calls' = Append(calls,
                              Call("search", collections_to_search[position]))
    /\ UNCHANGED <<available_indexes, clients, request, pc, query_type,
                   message, top_k, enhanced_query, enhance_failed,
                   query_vector, collections_to_search, all_results,
                   top_results, cluster_data, outcome, returned,
                   cluster_reply, unit>>

\* Step 6, the iteration ends: all_results.extend(...) with the matches, or
\* with the empty list of a failed query; after the last target the loop ends
ReceiveSearch ==
    /\ pc = "search"
    /\ \E position \in in_flight :
        /\ position = Len(returned) + 1
        /\ \E out \in SearchOutcomes :
            /\ all_results' = all_results
                    \o search_collection(collections_to_search[position], out)
            /\ returned' = Append(returned, out)
        /\ in_flight' = in_flight \ {position}
    /\ pc' = IF LoopContinues(Len(returned'), collections_to_search)
             THEN "search" ELSE "aggregate"
    /\ UNCHANGED <<available_indexes, clients, request, query_type, message,
                   top_k, enhanced_query, enhance_failed, query_vector,
                   collections_to_search, top_results, cluster_data, outcome,
                   calls, cluster_reply, unit>>

\* Step 7: all_results.sort(...); top_results = all_results[:top_k]
Aggregate ==
    /\ pc = "aggregate"
    /\ all_results' = sort_by_score_desc(all_results)
    /\ top_results' = slice(all_results', top_k)
    /\ pc' = "cluster"
    /\ UNCHANGED <<available_indexes, clients, request, query_type, message,
                   top_k, enhanced_query, enhance_failed, query_vector,
                   collections_to_search, cluster_data, outcome, calls,
                   returned, in_flight, cluster_reply, unit>>

FullResponse(cl) ==
    QueryResponse(request.query, enhanced_query, query_type, None, top_results,
                  Len(top_results), collections_to_search, cl)

\* Step 8 with fewer than 2 results: clusters = None, and the response
RespondUnclustered ==
    /\ pc = "cluster"
    /\ ~EnoughToCluster(top_results)
    /\ outcome' = FullResponse(None)
    /\ pc' = "done"
    /\ UNCHANGED <<available_indexes, clients, request, query_type, message,
                   top_k, enhanced_query, enhance_failed, query_vector,
                   collections_to_search, all_results, top_results,
                   cluster_data, calls, returned, in_flight, cluster_reply,
                   unit>>

\* Step 8: cluster_data = cluster_hadiths(top_results), the HadithCluster
\* models, and the response; an exception of the models is caught by
\* "except Exception" and becomes the 500 "Search failed"
Cluster ==
    /\ pc = "cluster"
    /\ EnoughToCluster(top_results)
    /\ \E out \in ClusterOutcomes :
        LET data == cluster_hadiths(top_results, out)
            built == IF Truthy(data)
                     THEN HadithClusters(Val(data))
                     ELSE [raised |-> FALSE, clusters |-> None]
        IN  /\ cluster_data' = data
            /\ cluster_reply' = Some(out)
            /\ calls' = Append(calls, Call("cluster", ""))
            /\ outcome' = IF built.raised
                          THEN HTTPException(500, "Search failed")
                          ELSE FullResponse(built.clusters)
    /\ pc' = "done"
    /\ UNCHANGED <<available_indexes, clients, request, query_type, message,
                   top_k, enhanced_query, enhance_failed, query_vector,
                   collections_to_search, all_results, top_results, returned,
                   in_flight, unit>>

Next ==
    \/ Classify
    \/ Enhance
    \/ Embed
    \/ DetermineCollections
    \/ IssueSearch
    \/ ReceiveSearch
    \/ Aggregate
    \/ RespondUnclustered
    \/ Cluster

Spec == Init /\ [][Next]_vars

\* Every step of search_hadiths is local code or a remote call that returns
\* or fails in the end, so a request that can take a step takes one.
SpecFair == Init /\ [][Next]_vars /\ WF_vars(Next)

----------------------------------------------------------------------------
(* SpecText: enhance_query (API) and understand_query (CLI) on every       *)
(* bounded query.  understand_query asks the primary model, then each      *)
(* alternative model in turn; unit.tried lists the models asked so far,    *)
(* unit.replies the completions received, unit.reply the last of them.     *)
(* classify_query (API) and                                                *)
(* is_hadith_query (CLI) on every bounded classification outcome;          *)
(* unit.verdict is what the classifier returned and whether its caller     *)
(* goes on to the enhancement.                                             *)

LLM_MODEL == "gpt-4o-mini"

\* the alternatives listed in another order
alternative_models_reordered == <<"gpt-4-turbo", "gpt-4o", "gpt-3.5-turbo">>

alternative_models == <<"gpt-4o", "gpt-4-turbo", "gpt-3.5-turbo">>

ModelOrder == <<LLM_MODEL>> \o alternative_models

\* combined_query = f"{user_query} {enhanced_query}"
combined_query(user_query, out) ==
    LET enhanced == strip(Val(out.content))
    IN  user_query \o <<" ">> \o enhanced

InitText ==
    /\ available_indexes = <<>>
    /\ clients = [openai_client |-> "OpenAI", pinecone_client |-> "Pinecone"]
    /\ request = [query |-> <<"a">>, top_k |-> None, collections |-> None]
    /\ pc = "idle"
    /\ query_type = ""
    /\ message = ""
    /\ top_k = 0
    /\ enhanced_query = <<>>
    /\ enhance_failed = FALSE
    /\ query_vector = None
    /\ collections_to_search = <<>>
    /\ all_results = <<>>
    /\ top_results = <<>>
    /\ cluster_data = None
    /\ outcome = Pending
    /\ calls = <<>>
    /\ returned = <<>>
    /\ in_flight = {}
    /\ cluster_reply = None
    /\ unit \in [fn : {"enhance_query", "understand_query",
                       "classify_query", "is_hadith_query"},
                 query : LongQueries,
                 tried : {<<>>},
                 replies : {<<>>},
                 reply : {None},
                 result : {None},
                 verdict : {None}]

\* enhance_query(query): one completion, then the return
EnhanceQueryCall ==
    /\ unit.fn = "enhance_query"
    /\ unit.result = None
    /\ \E out \in ChatOutcomes(LongEnhanceAnswers) :
        unit' = [unit EXCEPT !.tried = <<LLM_MODEL>>,
                             !.replies = Append(unit.replies, out),
                             !.reply = Some(out),
                             !.result = Some(enhance_query(unit.query, out))]
    /\ UNCHANGED pipeline_vars

\* understand_query(client, user_query): one completion of the next model;
\* a usable answer returns the combined query, the failure of the last
\* model returns the original query
UnderstandQueryAttempt ==
    /\ unit.fn = "understand_query"
    /\ unit.result = None
    /\ Len(unit.tried) < Len(ModelOrder)
    /\ \E out \in ChatOutcomes(LongEnhanceAnswers) :
        LET tried == Append(unit.tried, ModelOrder[Len(unit.tried) + 1])
        IN  unit' = [unit EXCEPT
                        !.tried = tried,
                        !.replies = Append(unit.replies, out),
                        !.reply = Some(out),
                        !.result = IF ContentUsable(out)
                                   THEN Some(combined_query(unit.query, out))
                                   ELSE IF Len(tried) = Len(ModelOrder)
                                   THEN Some(unit.query)
                                   ELSE None]
    /\ UNCHANGED pipeline_vars

\* classify_query(query): one completion, then the return; search_hadiths
\* goes on to the enhancement unless it returns early
ClassifyQueryCall ==
    /\ unit.fn = "classify_query"
    /\ unit.verdict = None
    /\ \E out \in ChatOutcomes(ClassifyAnswers) :
        LET c == classify_query(out)
        IN  unit' = [unit EXCEPT
                        !.tried = <<LLM_MODEL>>,
                        !.replies = Append(unit.replies, out),
                        !.reply = Some(out),
                        !.verdict = Some([query_type |-> c.query_type,
                                          message |-> c.message,
                                          proceeds |-> ~IsEarlyExit(c.query_type)])]
    /\ UNCHANGED pipeline_vars

\* is_hadith_query(client, user_query): one completion, then the return;
\* main prints the message and returns "if not is_hadith"
IsHadithQueryCall ==
    /\ unit.fn = "is_hadith_query"
    /\ unit.verdict = None
    /\ \E out \in ChatOutcomes(ClassifyAnswers) :
        LET c == is_hadith_query(out)
        IN  unit' = [unit EXCEPT
                        !.tried = <<LLM_MODEL>>,
                        !.replies = Append(unit.replies, out),
                        !.reply = Some(out),
                        !.verdict = Some([is_hadith |-> c.is_hadith,
                                          message |-> c.message,
                                          proceeds |-> c.is_hadith])]
    /\ UNCHANGED pipeline_vars

NextText ==
    \/ EnhanceQueryCall
    \/ UnderstandQueryAttempt
    \/ ClassifyQueryCall
    \/ IsHadithQueryCall

SpecText == InitText /\ [][NextText]_vars

----------------------------------------------------------------------------
(* Properties of Spec *)

IsResponse == outcome.kind = "response"

IsError(code) == outcome.kind = "error" /\ outcome.status_code = code

Issued(kind) == \E i \in 1..Len(calls) : calls[i].kind = kind

NonIncreasing(hits) ==
    \A i \in 1..(Len(hits) - 1) : hits[i].score >= hits[i + 1].score

\* C1: the results of a response are at most the requested k (10 when the
\* request gives none) and their scores never increase from first to last.
C1_ResultsBoundedAndSorted ==
    IsResponse =>
        /\ Len(outcome.results)
             <= (IF request.top_k = None THEN 10 ELSE Val(request.top_k))
        /\ NonIncreasing(outcome.results)

\* a response that dropped hits and ranks a better hit of the second
\* collection above a worse hit of the first
C1_Witness ==
    /\ IsResponse
    /\ Len(returned) = 2
    /\ Len(returned[1].scores) + Len(returned[2].scores) > Len(outcome.results)
    /\ Len(outcome.results) = 2
    /\ outcome.results[1].score > outcome.results[2].score
    /\ returned[1].scores # <<>>
    /\ returned[1].scores[1] = 1
    /\ outcome.results[1].collection = collections_to_search[2]

\* C2: a greeting or off-topic classification ends the request with a
\* response that has no results, total_results 0, no searched collections,
\* no clusters and a nonempty message.
C2_EarlyExitResponseShape ==
    query_type \in {"GREETING", "OFF_TOPIC"} =>
        /\ pc = "done"
        /\ IsResponse
        /\ outcome.query_type = query_type
        /\ outcome.results = <<>>
        /\ outcome.total_results = 0
        /\ outcome.searched_collections = <<>>
        /\ outcome.clusters = None
        /\ outcome.message # None
        /\ Val(outcome.message) # ""

\* a greeting answered while collections are known and one was requested
C2_Witness ==
    /\ IsResponse
    /\ outcome.query_type = "GREETING"
    /\ available_indexes # <<>>
    /\ request.collections = Some(<<"colA">>)

\* C3: in a greeting or off-topic request the classification call is the
\* only remote call ever issued.
C3_EarlyExitOnlyClassifies ==
    query_type \in {"GREETING", "OFF_TOPIC"} =>
        calls = <<Call("classify", "")>>

\* an off-topic request that could have been searched
C3_Witness ==
    /\ query_type = "OFF_TOPIC"
    /\ pc = "done"
    /\ available_indexes = <<"colA", "colB">>
    /\ request.collections = None

EmbeddingFailed == Issued("embed") /\ query_vector = None

\* C4: once the embedding call has failed, the request has ended with the
\* 500 error of create_embedding and neither a collection search nor a
\* clustering call is issued.
C4_EmbeddingFailureFatal ==
    EmbeddingFailed =>
        /\ pc = "done"
        /\ outcome = HTTPException(500, "Failed to create embedding")
        /\ ~Issued("search")
        /\ ~Issued("cluster")

\* the embedding fails in a request whose collections are valid
C4_Witness ==
    /\ EmbeddingFailed
    /\ query_type = "HADITH_QUERY"
    /\ available_indexes = <<"colA", "colB">>
    /\ request.collections = Some(<<"colB", "colA">>)

\* the hits of the collections whose query did not fail, in target order
RECURSIVE SurvivingHits(_)
SurvivingHits(n) ==
    IF n = 0
    THEN <<>>
    ELSE SurvivingHits(n - 1)
            \o search_collection(collections_to_search[n], returned[n])

OneSearchFailed ==
    /\ Len(collections_to_search) >= 2
    /\ Cardinality({i \in 1..Len(returned) : returned[i].raised}) = 1

\* C5: when the query of exactly one target collection fails, every target
\* collection is still queried and the request succeeds with the top k of
\* the merged hits of the others, all targets as searched_collections and
\* total_results counting only the surviving hits.
C5_PartialFailureStillSucceeds ==
    (pc = "done" /\ OneSearchFailed) =>
        /\ Len(returned) = Len(collections_to_search)
        /\ IsResponse
        /\ outcome.results
             = slice(sort_by_score_desc(SurvivingHits(Len(returned))),
                     IF request.top_k = None THEN 10 ELSE Val(request.top_k))
        /\ outcome.searched_collections = collections_to_search
        /\ outcome.total_results = Len(outcome.results)

Aggregated ==
    /\ pc \in {"cluster", "done"}
    /\ collections_to_search # <<>>
    /\ Len(returned) = Len(collections_to_search)

\* C7: with fewer than 2 aggregated hits no clustering call is issued and
\* the clusters of the response are absent.
C7_FewHitsNoClustering ==
    (Aggregated /\ Len(top_results) < 2) =>
        /\ ~Issued("cluster")
        /\ cluster_reply = None
        /\ IsResponse => outcome.clusters = None

\* a response with exactly one hit
C7_Witness ==
    /\ pc = "done"
    /\ Aggregated
    /\ Len(top_results) = 1
    /\ IsResponse
    /\ outcome.total_results = 1

ParsedEmptyClusters ==
    /\ cluster_reply # None
    /\ ContentUsable(Val(cluster_reply))
    /\ Val(Val(cluster_reply).content).json = "object"
    /\ Val(Val(cluster_reply).content).has_clusters
    /\ Val(Val(cluster_reply).content).clusters
         = [type |-> "list", items |-> <<>>]

\* C8: a clustering answer that parses to an empty clusters list gives no
\* clustering output and a response without clusters; the clusters of any
\* response are absent or a nonempty list.
C8_EmptyClustersAbsent ==
    /\ ParsedEmptyClusters =>
        /\ cluster_data = None
        /\ IsResponse
        /\ outcome.clusters = None
    /\ IsResponse => (outcome.clusters = None \/ Len(Val(outcome.clusters)) > 0)

\* the clustering of two hits answered with an empty clusters list
C8_Witness ==
    /\ ParsedEmptyClusters
    /\ pc = "done"
    /\ Len(top_results) = 2

\* C9: no hit index is a member of two different clusters of a response.
C9_NoIndexInTwoClusters ==
    (IsResponse /\ outcome.clusters # None) =>
        LET cl == Val(outcome.clusters)
        IN  \A i \in 1..Len(cl), j \in 1..Len(cl) :
                i # j =>
                    \A a \in 1..Len(cl[i].hadith_indices),
                       b \in 1..Len(cl[j].hadith_indices) :
                        cl[i].hadith_indices[a] # cl[j].hadith_indices[b]

NamesUnknownCollection ==
    /\ request.collections # None
    /\ InvalidCollections(Val(request.collections), available_indexes) # <<>>

\* C10: a request that names an unknown collection issues no remote call,
\* and ends with the 400 error.
C10_UnknownCollectionRejectedFirst ==
    NamesUnknownCollection =>
        /\ calls = <<>>
        /\ pc = "done" => IsError(400)

RequestedNames ==
    IF request.collections = None THEN <<>> ELSE Val(request.collections)

NoTargets == RequestedNames = <<>> /\ available_indexes = <<>>

\* step 5 has run: the embedding succeeded and the targets were determined
Validated == query_vector # None /\ pc # "collections"

C12_NoTargetsAlwaysAnError ==
    NoTargets =>
        /\ ~Issued("search")
        /\ pc = "done" => outcome.kind = "error"

\* C12, amended: a request that names no collection while no collection is
\* known never has a collection searched; when it is classified as a hadith
\* query it ends with an error, never with a response (a greeting or an
\* off-topic query is still answered with the early response).
C12_NoTargetsContentQueryAnError ==
    NoTargets =>
        /\ ~Issued("search")
        /\ (pc = "done" /\ query_type = "HADITH_QUERY") => outcome.kind = "error"
        /\ IsResponse => query_type \in {"GREETING", "OFF_TOPIC"}

\* the 404 of a hadith query with an empty list of collections
C12_Witness ==
    /\ pc = "done"
    /\ NoTargets
    /\ request.collections = Some(<<>>)
    /\ query_type = "HADITH_QUERY"
    /\ IsError(404)

\* C14: when the enhancement call of a request fails, enhance_query returns
\* exactly the original query, and the request goes on to the embedding
\* call, which embeds that original text.
C14_EnhanceFailureKeepsQuery ==
    enhance_failed =>
        /\ enhanced_query = request.query
        /\ pc # "embed" =>
            /\ Issued("embed")
            /\ query_vector # None => Val(query_vector) = request.query

\* a request answered after its enhancement call failed
C14_Witness ==
    /\ enhance_failed
    /\ pc = "done"
    /\ IsResponse
    /\ outcome.enhanced_query = outcome.query
    /\ query_vector = Some(request.query)
    /\ outcome.results # <<>>

\* C15: a hadith query whose embedding succeeded and that has at least one
\* target collection ends with a response, whatever the classification,
\* enhancement, search and clustering calls did.
C15_ContentQueryAlwaysAnswered ==
    (/\ pc = "done"
     /\ query_type = "HADITH_QUERY"
     /\ query_vector # None
     /\ collections_to_search # <<>>) => IsResponse

\* C16: the collection queries of a request overlap, so while a query is out
\* and a later target has not been queried yet the query of that target can
\* be issued; and the search stage is left only when every query issued has
\* returned or failed.
C16_SearchesRunConcurrently ==
    /\ (/\ pc = "search"
        /\ in_flight # {}
        /\ Len(returned) + Cardinality(in_flight) < Len(collections_to_search))
            => ENABLED IssueSearch
    /\ (pc \in {"aggregate", "cluster"} \/ (pc = "done" /\ Issued("search")))
            => (in_flight = {} /\ Len(returned) = Len(collections_to_search))

\* C18: every cluster of a response has a nonempty member list that contains
\* its primary index, and its primary index and its members are indices of
\* results of that response (0 <= index < total_results).
C18_ClusterIndicesValid ==
    (IsResponse /\ outcome.clusters # None) =>
        LET cl == Val(outcome.clusters)
            valid(x) == 0 <= x /\ x < outcome.total_results
        IN  \A i \in 1..Len(cl) :
                /\ cl[i].hadith_indices # <<>>
                /\ \E a \in 1..Len(cl[i].hadith_indices) :
                        cl[i].hadith_indices[a] = cl[i].primary_index
                /\ valid(cl[i].primary_index)
                /\ \A a \in 1..Len(cl[i].hadith_indices) :
                        valid(cl[i].hadith_indices[a])

\* the remote calls of a completed hadith query over the given targets
ExpectedCalls(targets) ==
    <<Call("classify", ""), Call("enhance", ""), Call("embed", "")>>
        \o [i \in 1..Len(targets) |-> Call("search", targets[i])]
        \o <<Call("cluster", "")>>

IsPrefix(s, t) ==
    /\ Len(s) <= Len(t)
    /\ \A i \in 1..Len(s) : s[i] = t[i]

\* C17: the remote calls of a request are issued in the order classify,
\* enhance, embed, one search per entry of the target list in list order,
\* cluster, none of them twice; the enhancement follows a hadith-query
\* classification, the searches are all back before the aggregation, the
\* clustering call comes after the aggregation; a hadith query that is
\* answered has made the classification, enhancement and embedding calls
\* and every search, and its searched_collections is the requested list in
\* request order, or the known list when the request names none.
C17_StagesInOrderOnce ==
    /\ IsPrefix(calls, ExpectedCalls(collections_to_search))
    /\ Issued("enhance") => query_type = "HADITH_QUERY"
    /\ Issued("search") => query_vector # None
    /\ in_flight # {} => calls[Len(calls)].kind = "search"
    /\ pc \in {"aggregate", "cluster"} =>
        /\ in_flight = {}
        /\ Len(calls) = 3 + Len(collections_to_search)
    /\ Issued("cluster") =>
        /\ pc = "done"
        /\ top_results = slice(all_results, top_k)
        /\ NonIncreasing(all_results)
    /\ (IsResponse /\ query_type = "HADITH_QUERY") =>
        /\ Len(calls) >= 3 + Len(collections_to_search)
        /\ outcome.searched_collections
             = (IF RequestedNames # <<>> THEN RequestedNames
                                         ELSE available_indexes)

\* a clustered response to a request that names the known collections in
\* the reverse of their known order
C17_Witness ==
    /\ IsResponse
    /\ available_indexes = <<"colA", "colB">>
    /\ request.collections = Some(<<"colB", "colA">>)
    /\ outcome.searched_collections = <<"colB", "colA">>
    /\ Len(calls) = 6
    /\ calls[4].target = "colB"
    /\ calls[6].kind = "cluster"

\* C19: no step of a request changes the process-wide state: the list of
\* known collection names and the service clients stay what the startup
\* made them.
C19_GlobalsNeverWritten ==
    [][available_indexes' = available_indexes /\ clients' = clients]_vars

\* a request answered from one explicitly named collection while two are
\* known
C19_Witness ==
    /\ IsResponse
    /\ request.collections = Some(<<"colB">>)
    /\ collections_to_search = <<"colB">>
    /\ outcome.results # <<>>
    /\ available_indexes = <<"colA", "colB">>
    /\ clients = [openai_client |-> "OpenAI", pinecone_client |-> "Pinecone"]

\* the clustering answer parsed to an object that has a clusters member
ClustersFieldPresent ==
    /\ cluster_reply # None
    /\ ContentUsable(Val(cluster_reply))
    /\ Val(Val(cluster_reply).content).json = "object"
    /\ Val(Val(cluster_reply).content).has_clusters

\* C21: when the clustering call raised, its answer did not parse, or the
\* parsed answer has no clusters member, cluster_hadiths returned None; it
\* returned a value only for a clusters member that is present and not
\* empty, and then that member as it is; and it never raised: a request
\* fails after the clustering call only on a value cluster_hadiths returned.
C21_ClusterHadithsNoneOnFailure ==
    cluster_reply # None =>
        /\ ~ClustersFieldPresent => cluster_data = None
        /\ cluster_data # None =>
            /\ ClustersFieldPresent
            /\ Val(Val(cluster_reply).content).clusters.items # <<>>
            /\ Val(cluster_data) = Val(Val(cluster_reply).content).clusters.items
        /\ (/\ ClustersFieldPresent
            /\ Val(Val(cluster_reply).content).clusters.type = "list"
            /\ Val(Val(cluster_reply).content).clusters.items # <<>>)
                => cluster_data
                     = Some(Val(Val(cluster_reply).content).clusters.items)
        /\ pc = "done"
        /\ outcome.kind = "error" => cluster_data # None

\* a request answered without clusters after a clustering answer that did
\* not parse
C21_Witness ==
    /\ cluster_reply # None
    /\ ContentUsable(Val(cluster_reply))
    /\ Val(Val(cluster_reply).content).json = "invalid"
    /\ cluster_data = None
    /\ IsResponse
    /\ outcome.clusters = None
    /\ outcome.total_results = 2

\* hit i of the concatenation comes before hit j in the reference order: a
\* higher score first, and among equal scores the earlier hit first
Precedes(c, i, j) ==
    \/ c[i].score > c[j].score
    \/ (c[i].score = c[j].score /\ i < j)

RankOf(c, i) == 1 + Cardinality({j \in 1..Len(c) : Precedes(c, j, i)})

\* the ranks of the hits of the concatenation in the reference order
Ranks(c) == [i \in 1..Len(c) |-> RankOf(c, i)]

\* the first k hits of the concatenation in the reference order
ReferenceTopK(c, rank, k) ==
    [r \in 1..Min(k, Len(c)) |-> c[CHOOSE i \in 1..Len(c) : rank[i] = r]]

\* top_results are the first k hits of the concatenation in the reference
\* order
AggregationIsStableTopK ==
    \E c \in {SurvivingHits(Len(returned))} :
    \E rank \in {Ranks(c)} :
        LET k == IF request.top_k = None THEN 10 ELSE Val(request.top_k)
        IN  /\ Len(top_results) = Min(k, Len(c))
            /\ top_results = ReferenceTopK(c, rank, k)
            /\ \A i \in 1..Len(c) :
                rank[i] > Len(top_results) =>
                    \A r \in 1..Len(top_results) :
                        c[i].score <= top_results[r].score

\* C22: the aggregated results are the hits of the target collections,
\* concatenated in target order, ordered by score from high to low with
\* equal scores in the order of the concatenation, and cut to the first k:
\* min(k, number of hits) of them, none omitted that scores higher than one
\* kept.  This holds when the aggregation has ended; the last step of the
\* request changes neither the aggregated results nor what the searches
\* returned, and the results of a response are the aggregated results.
C22_AggregationIsStableTopK ==
    /\ []((Aggregated /\ pc = "cluster") => AggregationIsStableTopK)
    /\ [][pc = "cluster" =>
            UNCHANGED <<top_results, returned, collections_to_search, request>>]_vars
    /\ []((IsResponse /\ query_type = "HADITH_QUERY")
            => outcome.results = top_results)

\* the first target returns scores 1, 2 and the second 2, 2, with k = 2: of
\* the three hits of score 2 the first target's and the second target's
\* first are kept, in that order, and the second target's other hit is
\* dropped
C22_Witness ==
    /\ IsResponse
    /\ request.top_k = Some(2)
    /\ collections_to_search = <<"colB", "colA">>
    /\ returned = <<[raised |-> FALSE, scores |-> <<1, 2>>],
                    [raised |-> FALSE, scores |-> <<2, 2>>]>>
    /\ outcome.results
         = <<[score |-> 2, collection |-> "colB", hadith_id |-> 2],
             [score |-> 2, collection |-> "colA", hadith_id |-> 1]>>

\* the query of target number i returned the hit
ProducedBy(hit, i) ==
    /\ collections_to_search[i] = hit.collection
    /\ ~returned[i].raised
    /\ hit.hadith_id \in 1..Len(returned[i].scores)
    /\ returned[i].scores[hit.hadith_id] = hit.score

\* C25: every hit of a response names in its collection field a collection
\* that was searched and whose query returned that hit; hence a response
\* with results is the response to a hadith query, with searched
\* collections, without a message, and with total_results the number of
\* its results.
C25_HitsCarryTheirCollection ==
    IsResponse =>
        /\ \A r \in 1..Len(outcome.results) :
            /\ \E i \in 1..Len(outcome.searched_collections) :
                    outcome.searched_collections[i]
                        = outcome.results[r].collection
            /\ \E i \in 1..Len(returned) : ProducedBy(outcome.results[r], i)
        /\ outcome.results # <<>> =>
            /\ outcome.query_type = "HADITH_QUERY"
            /\ outcome.searched_collections # <<>>
            /\ outcome.message = None
            /\ outcome.total_results = Len(outcome.results)

\* a response whose two hits come from two different collections, the
\* better one from the second target
C25_Witness ==
    /\ IsResponse
    /\ outcome.searched_collections = <<"colA", "colB">>
    /\ Len(outcome.results) = 2
    /\ outcome.results[1].collection = "colB"
    /\ outcome.results[2].collection = "colA"
    /\ returned[1].scores = <<1>>
    /\ returned[2].scores = <<2>>

----------------------------------------------------------------------------
(* Properties of SpecFair *)

\* C24: when every remote call returns or fails in the end, every request
\* ends; a request has an outcome exactly when it has ended, the outcome is
\* a response or an error, and once it has ended neither its outcome
\* changes nor is another remote call issued.
C24_RequestReachesOneOutcome ==
    /\ <>(pc = "done")
    /\ [](pc = "done" <=> outcome # Pending)
    /\ [](pc = "done" => outcome.kind \in {"response", "error"})
    /\ [][pc = "done" => (outcome' = outcome /\ calls' = calls /\ pc' = pc)]_vars

\* a request of two targets has ended with a clustered response after six
\* remote calls
C24_Witness ==
    /\ pc = "done"
    /\ IsResponse
    /\ outcome.clusters # None
    /\ Len(calls) = 6
    /\ in_flight = {}
    /\ request.collections = None

----------------------------------------------------------------------------
(* Properties of SpecText *)

\* C6: whatever the completion of the enhancement call was, the text that
\* enhance_query and understand_query return starts with the original query.
C6_EnhancedKeepsQueryPrefix ==
    unit.result # None => startswith(Val(unit.result), unit.query)

\* understand_query combines a query of two characters with the answer of
\* the second model, stripped of its blank
C6_Witness ==
    /\ unit.fn = "understand_query"
    /\ unit.query = <<"a", " ">>
    /\ Len(unit.tried) = 2
    /\ unit.reply = Some([raised |-> FALSE, content |-> Some(<<" ", "a">>)])
    /\ unit.result = Some(<<"a", " ", " ", "a">>)

IsClassifierUnit == unit.fn \in {"classify_query", "is_hadith_query"}

\* the classification call raised, or its message had no content
ClassificationFailed ==
    /\ IsClassifierUnit
    /\ unit.reply # None
    /\ ~ContentUsable(Val(unit.reply))

\* C13: when the classification call raises or answers without content, the
\* classifier of the API and of the command line returns the hadith-query
\* intent with an empty message, and its caller goes on to the enhancement
\* instead of ending the request.
C13_ClassifierFailsOpen ==
    ClassificationFailed =>
        /\ unit.verdict # None
        /\ Val(unit.verdict).message = ""
        /\ Val(unit.verdict).proceeds
        /\ unit.fn = "classify_query"
             => Val(unit.verdict).query_type = "HADITH_QUERY"
        /\ unit.fn = "is_hadith_query" => Val(unit.verdict).is_hadith

\* classify_query has returned after a completion without content
C13_Witness ==
    /\ unit.fn = "classify_query"
    /\ unit.reply = Some([raised |-> FALSE, content |-> None])
    /\ unit.verdict # None
    /\ Val(unit.verdict).proceeds

HasHadithMarker(text) ==
    \E i \in 1..Len(text) : text[i] \in {"HADITH_QUERY", "hadith_query"}

HasGreetingMarker(text) ==
    \E i \in 1..Len(text) : text[i] \in {"GREETING", "Greeting!"}

\* C20: an answer of the classifier that holds the hadith-query marker in
\* any letter case, alone or inside a longer word, is a hadith query, also when it holds the greeting marker
\* too; otherwise an answer that holds the greeting marker is a greeting;
\* any other answer, the empty one included, is off topic.  A hadith query
\* comes with the empty message, a greeting and an off-topic query with
\* nonempty messages that differ from each other.
C20_ClassifierPrecedence ==
    (IsClassifierUnit /\ unit.reply # None /\ ContentUsable(Val(unit.reply))) =>
        LET text == Val(Val(unit.reply).content)
            intent == IF HasHadithMarker(text) THEN "HADITH_QUERY"
                      ELSE IF HasGreetingMarker(text) THEN "GREETING"
                      ELSE "OFF_TOPIC"
            v == Val(unit.verdict)
            greeting == IF unit.fn = "classify_query"
                        THEN GREETING_MESSAGE ELSE CLI_GREETING_MESSAGE
            off_topic == IF unit.fn = "classify_query"
                         THEN OFF_TOPIC_MESSAGE ELSE CLI_OFF_TOPIC_MESSAGE
        IN  /\ unit.verdict # None
            /\ unit.fn = "classify_query" => v.query_type = intent
            /\ unit.fn = "is_hadith_query"
                 => (v.is_hadith <=> intent = "HADITH_QUERY")
            /\ intent = "HADITH_QUERY" => v.message = ""
            /\ intent = "GREETING" => (v.message = greeting /\ v.message # "")
            /\ intent = "OFF_TOPIC" => (v.message = off_topic /\ v.message # "")
            /\ greeting # off_topic

\* is_hadith_query has answered a completion that holds the greeting marker,
\* in mixed case inside a longer word, before the hadith-query marker in
\* lower case
C20_Witness ==
    /\ unit.fn = "is_hadith_query"
    /\ unit.reply
         = Some([raised |-> FALSE, content |-> Some(<<"Greeting!", "hadith_query">>)])
    /\ unit.verdict # None
    /\ Val(unit.verdict).is_hadith

\* C23: understand_query asks gpt-4o-mini, then gpt-4o, gpt-4-turbo and
\* gpt-3.5-turbo in this order, each only after every model before it has
\* failed, four calls at most; it returns once a model has answered, with
\* the original query followed by a blank and that answer, and it returns
\* the original query unchanged only after all four models have failed.
C23_UnderstandQueryRetriesInOrder ==
    unit.fn = "understand_query" =>
        LET order == <<"gpt-4o-mini", "gpt-4o", "gpt-4-turbo", "gpt-3.5-turbo">>
            n == Len(unit.tried)
        IN  /\ n <= 4
            /\ unit.tried = SubSeq(order, 1, n)
            /\ Len(unit.replies) = n
            /\ \A i \in 1..(n - 1) : ~ContentUsable(unit.replies[i])
            /\ n = 0 => unit.result = None
            /\ (n > 0 /\ ContentUsable(unit.replies[n])) =>
                    unit.result
                      = Some(unit.query \o <<" ">>
                                \o strip(Val(unit.replies[n].content)))
            /\ (n > 0 /\ ~ContentUsable(unit.replies[n])) =>
                    unit.result = (IF n = 4 THEN Some(unit.query) ELSE None)
            /\ unit.result = Some(unit.query) =>
                    (n = 4 /\ \A i \in 1..4 : ~ContentUsable(unit.replies[i]))

\* the primary model raises, gpt-4o answers without content, gpt-4-turbo
\* answers, and understand_query returns without asking gpt-3.5-turbo
C23_Witness ==
    /\ unit.fn = "understand_query"
    /\ unit.query = <<"a">>
    /\ unit.tried = <<"gpt-4o-mini", "gpt-4o", "gpt-4-turbo">>
    /\ unit.replies = <<[raised |-> TRUE, content |-> None],
                        [raised |-> FALSE, content |-> None],
                        [raised |-> FALSE, content |-> Some(<<"a", " ">>)]>>
    /\ unit.result = Some(<<"a", " ", "a">>)

====
